---- MODULE Spec2Model ----
(***************************************************************************)
(* A model of VSXExtensionsModel (vsx-extensions-model.ts): the extension  *)
(* record store, the debounced and cancellable search cycle, the installed *)
(* set reconciliation, refresh and resolve, and the change event that      *)
(* doChange emits.  One action is one run-to-completion step of the        *)
(* JavaScript event loop: a handler runs from the event that wakes it to   *)
(* the next await on the outside world (progress set-up, registry call,    *)
(* timer).                                                                 *)
(***************************************************************************)
EXTENDS Integers, Sequences, FiniteSets, TLC

\* ------------------------------------------------------------------ bounds
\* how many times the query is written with a new value, when the search
\* cycles run alone
MaxMutations == 2
\* how many times the host changes its plugins or resolve(id) is called, when
\* the reconciliation, refresh and resolve run alone
MaxCalls == 2
\* how many query writes, host changes and resolve(id) calls there are in all,
\* when every operation runs
AllCalls == 1
\* the granularity of the clock
TickStep == 50
\* how many times getOrCreateWidget is called
MaxWidgetCalls == 2
\* how many times VSXExtensionResolver.resolve is called
MaxResolverCalls == 2

\* the wait of the debounced updateSearchResult
DebounceWait == 150


\* ------------------------------------------------------------- data values
Queries == {"", "foo"}

\* names are sequences of characters, so that toLowerCase is computed
UpperOf == [c \in {"a", "x", "y"} |-> CASE c = "a" -> "A" [] c = "x" -> "X" [] c = "y" -> "Y"]

toLowerChar(c) ==
    IF \E l \in DOMAIN UpperOf : UpperOf[l] = c
    THEN CHOOSE l \in DOMAIN UpperOf : UpperOf[l] = c
    ELSE c

toLowerCase(s) == [i \in DOMAIN s |-> toLowerChar(s[i])]

IdAX == <<"a", ".", "x">>
IdAY == <<"a", ".", "y">>
Ids == {IdAX, IdAY}

\* what the registry may answer to search(param): lists of summaries
SumAX == [publisher |-> <<"A">>, name |-> <<"x">>, version |-> 1]
SumAY == [publisher |-> <<"a">>, name |-> <<"Y">>, version |-> 1]
SearchAnswers == {<< >>, <<SumAX>>, <<SumAY, SumAX>>}

\* what the registry may answer to getExtension(id)
Details(id) ==
    { [version |-> 2, readmeUrl |-> "readme.md"], [version |-> 3] }

\* what the host runtime may report: plugin id -> engine type
HostStates ==
    { << >> ,
      [i \in {IdAX} |-> "vscode"],
      [i \in {IdAY} |-> "vscode"],
      [i \in Ids |-> IF i = IdAX THEN "vscode" ELSE "theia"] }

\* the text the registry may serve for a readme url
RawReadmes == {"# t"}

\* ------------------------------------------------------------------- state
VARIABLES
    query,            \* _query
    timer,            \* time left on the debounce timer of updateSearchResult, -1: not armed
    searchToken,      \* the cycle owning searchCancellationTokenSource.token, 0: the initial source
    tokenCancelled,   \* cycle -> its token's isCancellationRequested
    cyc,              \* cycle -> where the search cycle stands and how it ended
    extensions,       \* the extensions map: id -> record (a function of its fields)
    installed,        \* _installed
    searchResult,     \* _searchResult
    plugins,          \* pluginSupport.plugins: id -> engine type
    pass,             \* reconciliation pass -> where updateInstalled stands
    refreshing,       \* the refresh(id) calls awaiting api.getExtension
    res,              \* resolve call -> where resolve(id) stands
    lastRefresh,      \* how the refresh that ended last ended and what it returned
    queryEvents,      \* the values onDidChangeQueryEmitter fired with
    mutations,        \* how many times the query took a new value
    hostChanges,      \* how many times the host changed its plugins
    sinceMutation,    \* time since the debounced function was last called, capped at DebounceWait
    lastGap,          \* the time between the last two calls of the debounced function
    burstCycles,      \* cycles started since the debounced function was last called
    srFrom,           \* the cycle that committed the current searchResult, 0: none
    dirty,            \* a record or set changed since the last change event
    provided,         \* history: per id, the last value provided for each field
    mergedAt,         \* history: per id, the issue number of the latest-issued request merged into its record
    sameWrite,        \* history: the last write of the query wrote the value it had
    limit             \* the bounds of the run

\* the state of TaskTerminalWidgetManager and of the terminal widgets
VARIABLES
    terminalWidgetMap, \* the entries of the map, in insertion order
    widgets,           \* widget id -> the terminal widget
    call               \* call of getOrCreateWidget -> where it stands

taskVars == << terminalWidgetMap, widgets, call >>

\* the state of VSXExtensionResolver and of the extensions directory
VARIABLES
    rsv,               \* call of resolve -> where it stands and what it did
    extensionDirs,     \* the versioned extension directories that exist
    tempFiles          \* the calls whose download file exists

resolverVars == << rsv, extensionDirs, tempFiles >>

vsxVars ==
    << query, timer, searchToken, tokenCancelled, cyc, extensions, installed,
       searchResult, plugins, pass, refreshing, res, lastRefresh,
       queryEvents, mutations, hostChanges, sinceMutation, lastGap, burstCycles,
       srFrom, dirty, provided, mergedAt, sameWrite, limit >>

vars ==
    << query, timer, searchToken, tokenCancelled, cyc, extensions, installed,
       searchResult, plugins, pass, refreshing, res, lastRefresh,
       queryEvents, mutations, hostChanges, sinceMutation, lastGap, burstCycles,
       srFrom, dirty, provided,
                    mergedAt, sameWrite,
                    limit, taskVars, resolverVars >>

Cycles == DOMAIN cyc
Passes == DOMAIN pass
Resolves == DOMAIN res

\* the calls from outside so far
OtherCalls == hostChanges + Cardinality({r \in Resolves : res[r].pc # "none"})
Calls == mutations + OtherCalls

Min(a, b) == IF a < b THEN a ELSE b
Max(a, b) == IF a > b THEN a ELSE b

\* --------------------------------------------------------- the record store
\* VSXExtension.update(data): the fields data provides are written, the others kept
Update(rec, data) ==
    [f \in DOMAIN rec \cup DOMAIN data |-> IF f \in DOMAIN data THEN data[f] ELSE rec[f]]

\* extensionFactory({ id })
extensionFactory(id) == [f \in {"id"} |-> id]

\* getExtension(id) is undefined
Absent(exts, id) == id \notin DOMAIN exts

\* the map after setExtension(id): the record is created when the id has none
setExtensionReplaces(exts, id) ==
    [i \in DOMAIN exts \cup {id} |-> IF i = id THEN extensionFactory(id) ELSE exts[i]]

setExtension(exts, id) ==
    IF id \in DOMAIN exts
    THEN exts
    ELSE [i \in DOMAIN exts \cup {id} |-> IF i = id THEN extensionFactory(id) ELSE exts[i]]

\* the map after setExtension(id).update(data)
Upsert(exts, id, data) ==
    [setExtension(exts, id) EXCEPT ![id] = Update(@, data)]

\* history: data was provided for the record of id
Provide(prov, id, data) ==
    LET had(i) == IF i \in DOMAIN prov THEN DOMAIN prov[i] ELSE {}
        given(i) == IF i = id THEN DOMAIN data ELSE {}
    IN [i \in DOMAIN prov \cup {id} |->
           [f \in had(i) \cup given(i) |-> IF f \in given(i) THEN data[f] ELSE prov[i][f]]]

\* history: the issue number of the next registry request, counting the
\* requests of one step as one; 0 in the specifications that do not order
\* the requests
NextSeq ==
    IF limit.ordered
    THEN 1 + Cardinality({c \in Cycles : cyc[c].seq # 0})
           + Cardinality({p \in Passes : pass[p].seq # 0})
           + Cardinality({r \in Resolves : res[r].seq # 0})
    ELSE 0

\* history: the issue number of the refresh request q
SeqOf(q) == IF q.kind = "pass" THEN pass[q.op].seq ELSE res[q.op].seq

\* history: a response issued as number n was merged into the records of ids
MergedAt(merged, ids, n) ==
    IF limit.ordered
    THEN [i \in DOMAIN merged \cup ids |->
             IF i \in ids
             THEN (IF i \in DOMAIN merged THEN Max(merged[i], n) ELSE n)
             ELSE merged[i]]
    ELSE merged

\* VSXExtension.installed: the host runtime has a plugin of that id
Installed(id) == id \in DOMAIN plugins

\* ------------------------------------------------------------- doChange
\* onDidChangeEmitter.fire(undefined)
FireChange ==
    dirty' = FALSE

\* --------------------------------------------------------- the search cycle
\* pc: where the cycle stands; param: the VSXSearchParam it was started with;
\* asked: the query api.search was called with; answer: what api.search did;
\* under: the cycle owning the token source when the answer arrived;
\* outcome: how the promise of the cycle ended; events: the change events it fired;
\* stale: the query was written after the cycle started; waited: the time
\* between the last call of the debounced function and the start of the cycle;
\* got: result.extensions of the answer of api.search; seq: the issue number
\* of its api.search call, 0: none
NoCycle ==
    [pc |-> "none", param |-> "", asked |-> "<none>", answer |-> "none", under |-> 0,
     outcome |-> "none", events |-> 0, stale |-> FALSE, waited |-> 0, got |-> << >>,
     seq |-> 0]

\* the cycles whose registry answer may still arrive
InFlight(c) == cyc[c].pc \in {"setup", "searching"}

\* p-debounce: a call clears the timer t and arms it again with the full wait
DebounceKeepsTimer(t) == IF t >= 0 THEN t ELSE DebounceWait

Debounce(t) == DebounceWait

\* set query(query)
SetQueryAlwaysFires(q) ==
    /\ mutations < limit.mutations
    /\ Calls < limit.total
    /\ sameWrite' = (query = q)
    /\ query' = q
    /\ queryEvents' = Append(queryEvents, q)
    /\ mutations' = mutations + 1
    /\ timer' = Debounce(timer)
    /\ lastGap' = sinceMutation
    /\ sinceMutation' = 0
    /\ burstCycles' = 0
    /\ cyc' = [c \in Cycles |-> IF InFlight(c) THEN [cyc[c] EXCEPT !.stale = TRUE] ELSE cyc[c]]
    /\ UNCHANGED << searchToken, tokenCancelled, extensions, installed, searchResult,
                    plugins, pass, refreshing, res, lastRefresh, hostChanges, srFrom,
                    dirty, provided, mergedAt, limit, taskVars, resolverVars >>

SetQuery(q) ==
    IF query = q
    THEN /\ sameWrite' = TRUE
         /\ UNCHANGED << query, timer, searchToken, tokenCancelled, cyc, extensions,
                         installed, searchResult, plugins, pass, refreshing, res,
                         lastRefresh, queryEvents, mutations, hostChanges, sinceMutation,
                         lastGap, burstCycles, srFrom, dirty, provided, mergedAt, limit, taskVars, resolverVars >>
    ELSE /\ mutations < limit.mutations
         /\ Calls < limit.total
         /\ query' = q
         /\ queryEvents' = Append(queryEvents, q)
         /\ mutations' = mutations + 1
         \* the listener of onDidChangeQuery calls the debounced updateSearchResult
         /\ timer' = Debounce(timer)
         /\ lastGap' = sinceMutation
         /\ sinceMutation' = 0
         /\ burstCycles' = 0
         /\ cyc' = [c \in Cycles |-> IF InFlight(c) THEN [cyc[c] EXCEPT !.stale = TRUE] ELSE cyc[c]]
         /\ sameWrite' = FALSE
         /\ UNCHANGED << searchToken, tokenCancelled, extensions, installed, searchResult,
                         plugins, pass, refreshing, res, lastRefresh, hostChanges, srFrom,
                         dirty, provided, mergedAt, limit, taskVars, resolverVars >>

\* time passes while the debounce timer runs
Tick ==
    /\ timer > 0
    /\ timer' = Max(timer - TickStep, 0)
    /\ sinceMutation' = Min(sinceMutation + TickStep, DebounceWait)
    /\ UNCHANGED << query, searchToken, tokenCancelled, cyc, extensions, installed,
                    searchResult, plugins, pass, refreshing, res, lastRefresh, queryEvents,
                    mutations, hostChanges, lastGap, burstCycles, srFrom, dirty, provided,
                    mergedAt, sameWrite,
                    limit, taskVars, resolverVars >>

NextCycle == Cardinality({c \in Cycles : cyc[c].pc # "none"}) + 1

\* searchCancellationTokenSource.cancel()
CancelNothing(tc, c) == tc

Cancel(tc, c) == [tc EXCEPT ![c] = TRUE]

\* the parameter of the search: { query: this.query }, read when the
\* debounced function runs
SearchParamInitial == ""

SearchParam == query

\* the debounced function runs: cancel, new token source, doUpdateSearchResult
\* up to the await of the progress set-up
UpdateSearchResult ==
    /\ timer = 0
    /\ NextCycle \in Cycles
    /\ timer' = -1
    /\ tokenCancelled' = Cancel(tokenCancelled, searchToken)
    /\ searchToken' = NextCycle
    /\ cyc' = [cyc EXCEPT ![NextCycle] =
                  [NoCycle EXCEPT !.pc = "setup", !.param = SearchParam, !.waited = sinceMutation]]
    /\ burstCycles' = burstCycles + 1
    /\ UNCHANGED << query, extensions, installed, searchResult, plugins, pass, refreshing,
                    res, lastRefresh, queryEvents, mutations, hostChanges, sinceMutation,
                    lastGap, srFrom, dirty, provided,
                    mergedAt, sameWrite,
                    limit, taskVars, resolverVars >>

\* doChange: the token check before the task
DoChangeSkips(c) == TRUE

DoChangeStartsAnyway(c) == FALSE

DoChangeFirstCheck(c) == tokenCancelled[c]

\* doChange: the token check after the task, before the change event
DoChangeNeverChecks(c) == FALSE

DoChangeSecondCheck(c) == tokenCancelled[c]

\* doChange's callback starts: the first token check, then api.search(param).
\* progressService.withProgress may suspend before it calls the callback, so
\* this is a step of its own.
SearchTaskStart(c) ==
    /\ cyc[c].pc = "setup"
    /\ IF DoChangeFirstCheck(c)
       THEN cyc' = [cyc EXCEPT ![c].pc = "done", ![c].outcome = "skipped",
                               ![c].under = searchToken]
       ELSE cyc' = [cyc EXCEPT ![c].pc = "searching", ![c].asked = cyc[c].param,
                               ![c].seq = NextSeq]
    /\ UNCHANGED << query, timer, searchToken, tokenCancelled, extensions, installed,
                    searchResult, plugins, pass, refreshing, res, lastRefresh, queryEvents,
                    mutations, hostChanges, sinceMutation, lastGap, burstCycles, srFrom,
                    dirty, provided,
                    mergedAt, sameWrite,
                    limit, taskVars, resolverVars >>

\* the id of a summary
SummaryIdNoLower(data) == data.publisher \o <<".">> \o data.name

SummaryId(data) == toLowerCase(data.publisher) \o <<".">> \o toLowerCase(data.name)

\* the loop over result.extensions, from the i-th summary on
StoreSummariesNoRecord(exts, list, i) == exts

RECURSIVE StoreSummaries(_, _, _)
StoreSummaries(exts, list, i) ==
    IF i > Len(list)
    THEN exts
    ELSE StoreSummaries(Upsert(exts, SummaryId(list[i]), list[i]), list, i + 1)

\* history: the summaries of a search answer were provided, from the i-th on
RECURSIVE ProvideSummaries(_, _, _)
ProvideSummaries(prov, list, i) ==
    IF i > Len(list)
    THEN prov
    ELSE ProvideSummaries(Provide(prov, SummaryId(list[i]), list[i]), list, i + 1)

SummaryIds(list) == { SummaryId(list[i]) : i \in DOMAIN list }

\* doUpdateSearchResult: the token check after the answer of api.search
SearchNeverChecks(c) == FALSE

SearchTokenCheck(c) == tokenCancelled[c]

\* api.search answers: the rest of the task, then the rest of doChange
SearchArrive(c, list) ==
    /\ cyc[c].pc = "searching"
    /\ LET stored == ~SearchTokenCheck(c)
           fired == ~DoChangeSecondCheck(c)
       IN /\ extensions' = IF stored THEN StoreSummaries(extensions, list, 1) ELSE extensions
          /\ searchResult' = IF stored THEN SummaryIds(list) ELSE searchResult
          /\ srFrom' = IF stored THEN c ELSE srFrom
          /\ provided' = IF stored THEN ProvideSummaries(provided, list, 1) ELSE provided
          /\ mergedAt' = IF stored
                         THEN MergedAt(mergedAt, SummaryIds(list), cyc[c].seq)
                         ELSE mergedAt
          /\ cyc' = [cyc EXCEPT ![c].pc = "done", ![c].answer = "ok",
                                ![c].under = searchToken, ![c].got = list,
                                ![c].outcome = IF fired THEN "committed" ELSE "discarded",
                                ![c].events = IF fired THEN @ + 1 ELSE @]
          /\ IF fired THEN FireChange ELSE dirty' = (dirty \/ stored)
    /\ UNCHANGED << query, timer, searchToken, tokenCancelled, installed, plugins, pass,
                    refreshing, res, lastRefresh, queryEvents, mutations, hostChanges,
                    sinceMutation, lastGap, burstCycles, sameWrite,
                    limit, taskVars, resolverVars >>

\* api.search fails: nothing catches the error, the promise of the cycle rejects
SearchFailClears(c) ==
    /\ cyc[c].pc = "searching"
    /\ cyc' = [cyc EXCEPT ![c].pc = "done", ![c].answer = "failed",
                          ![c].under = searchToken, ![c].outcome = "rejected"]
    /\ searchResult' = {}
    /\ UNCHANGED << query, timer, searchToken, tokenCancelled, extensions, installed,
                    plugins, pass, refreshing, res, lastRefresh, queryEvents, mutations,
                    hostChanges, sinceMutation, lastGap, burstCycles, srFrom, dirty,
                    provided, mergedAt,
                    sameWrite, limit, taskVars, resolverVars >>

SearchFail(c) ==
    /\ cyc[c].pc = "searching"
    /\ cyc' = [cyc EXCEPT ![c].pc = "done", ![c].answer = "failed",
                          ![c].under = searchToken, ![c].outcome = "rejected"]
    /\ UNCHANGED << query, timer, searchToken, tokenCancelled, extensions, installed,
                    searchResult, plugins, pass, refreshing, res, lastRefresh, queryEvents,
                    mutations, hostChanges, sinceMutation, lastGap, burstCycles, srFrom,
                    dirty, provided,
                    mergedAt, sameWrite,
                    limit, taskVars, resolverVars >>

\* ------------------------------------------------- installed reconciliation
\* seq: the issue number of the refreshes of the pass, 0: none
NoPass == [pc |-> "none", events |-> 0, issued |-> << >>, outcome |-> "none", seq |-> 0]

\* plugin.model.engine.type === 'vscode'
IsAnyEngine(engine) == TRUE

IsExtension(engine) == engine = "vscode"

\* the order in which the plugins and the ids of a set are iterated
IdOrder == <<IdAX, IdAY>>

\* the first loop of updateInstalled, from the i-th plugin on;
\* st: prev (this._installed), exts, inst (installed), ref (the ids refreshed)
RECURSIVE PluginLoop(_, _)
PluginLoop(st, i) ==
    IF i > Len(IdOrder)
    THEN st
    ELSE LET id == IdOrder[i]
         IN IF id \in DOMAIN plugins /\ IsExtension(plugins[id])
            THEN LET exts == setExtension(st.exts, id)
                 IN PluginLoop([prev |-> st.prev \ {id},
                                exts |-> exts,
                                inst |-> st.inst \cup {exts[id].id},
                                ref  |-> Append(st.ref, id)], i + 1)
            ELSE PluginLoop(st, i + 1)

\* the second loop of updateInstalled: what is left of this._installed
RemovedLoopSkips(st, i) == st

RECURSIVE RemovedLoop(_, _)
RemovedLoop(st, i) ==
    IF i > Len(IdOrder)
    THEN st
    ELSE IF IdOrder[i] \in st.prev
         THEN RemovedLoop([st EXCEPT !.ref = Append(@, IdOrder[i])], i + 1)
         ELSE RemovedLoop(st, i + 1)

\* the task of updateInstalled
UpdateInstalledTask ==
    RemovedLoop(PluginLoop([prev |-> installed, exts |-> extensions, inst |-> {}, ref |-> << >>], 1), 1)

\* the refresh(id) calls a task issues, each up to its await of api.getExtension
Requests(ids, kind, op) ==
    { [id |-> ids[i], kind |-> kind, op |-> op] : i \in DOMAIN ids }

\* the host runtime changes its plugins and notifies: updateInstalled()
\* up to the await of the progress set-up
NextPass == Cardinality({p \in Passes : pass[p].pc # "none"}) + 1

HostChange(ps) ==
    /\ OtherCalls < limit.others
    /\ Calls < limit.total
    /\ ps # plugins
    /\ NextPass \in Passes
    /\ plugins' = ps
    /\ hostChanges' = hostChanges + 1
    /\ pass' = [pass EXCEPT ![NextPass] = [NoPass EXCEPT !.pc = "setup"]]
    /\ UNCHANGED << query, timer, searchToken, tokenCancelled, cyc, extensions, installed,
                    searchResult, refreshing, res, lastRefresh, queryEvents, mutations,
                    sinceMutation, lastGap, burstCycles, srFrom, dirty, provided,
                    mergedAt, sameWrite,
                    limit, taskVars, resolverVars >>

\* doChange's callback of updateInstalled runs: the task, then the change event
UpdateInstalled(p) ==
    /\ pass[p].pc = "setup"
    /\ LET st == UpdateInstalledTask
       IN /\ extensions' = st.exts
          /\ installed' = st.inst
          /\ refreshing' = refreshing \cup Requests(st.ref, "pass", p)
          /\ pass' = [pass EXCEPT ![p].pc = "done", ![p].issued = st.ref,
                                  ![p].seq = IF st.ref = << >> THEN 0 ELSE NextSeq,
                                  ![p].events = @ + 1, ![p].outcome = "resolved"]
    /\ FireChange
    /\ UNCHANGED << query, timer, searchToken, tokenCancelled, cyc, searchResult, plugins,
                    res, lastRefresh, queryEvents, mutations, hostChanges, sinceMutation,
                    lastGap, burstCycles, srFrom, provided,
                    mergedAt, sameWrite,
                    limit, taskVars, resolverVars >>

\* ------------------------------------------------------ refresh and resolve
\* readme: what api.fetchText did for the call; seq: the issue number of its
\* refresh, 0: none
NoResolve ==
    [pc |-> "none", id |-> << >>, events |-> 0, outcome |-> "none", readme |-> "none",
     seq |-> 0]

\* showdown and sanitize-html, on the texts the registry serves
compileReadme(raw) == CASE raw = "# t" -> "<h2>t</h2>"

\* resolve(id) after its refresh returned the record: the readme is fetched
\* when the record has a readmeUrl, else the task ends and the event fires
ResolveAfterRefresh(r, exts) ==
    IF "readmeUrl" \in DOMAIN exts[res[r].id]
    THEN /\ res' = [res EXCEPT ![r].pc = "readme"]
         /\ dirty' = (dirty \/ exts # extensions)
    ELSE /\ res' = [res EXCEPT ![r].pc = "done", ![r].events = @ + 1,
                               ![r].outcome = "resolved"]
         /\ FireChange

\* resolve(id) after its refresh returned undefined: the task throws
ResolveIgnoresAbsent(r) ==
    /\ res' = [res EXCEPT ![r].pc = "done", ![r].events = @ + 1, ![r].outcome = "resolved"]
    /\ FireChange

ResolveFailed(r) ==
    /\ res' = [res EXCEPT ![r].pc = "done", ![r].outcome = "rejected"]
    /\ UNCHANGED dirty

\* what refresh(id) returns on a 404: the record when it exists and is installed
Keeps404IfExists(id) == ~Absent(extensions, id)

Keeps404(id) == ~Absent(extensions, id) /\ Installed(id)

\* resolve(id) is called, up to the await of the progress set-up
NextResolve == Cardinality({r \in Resolves : res[r].pc # "none"}) + 1

Resolve(id) ==
    /\ OtherCalls < limit.others
    /\ Calls < limit.total
    /\ NextResolve \in Resolves
    /\ res' = [res EXCEPT ![NextResolve] = [NoResolve EXCEPT !.pc = "setup", !.id = id]]
    /\ UNCHANGED << query, timer, searchToken, tokenCancelled, cyc, extensions, installed,
                    searchResult, plugins, pass, refreshing, lastRefresh, queryEvents,
                    mutations, hostChanges, sinceMutation, lastGap, burstCycles, srFrom,
                    dirty, provided,
                    mergedAt, sameWrite,
                    limit, taskVars, resolverVars >>

\* doChange's callback of resolve starts: refresh(id) up to its await
ResolveTaskStart(r) ==
    /\ res[r].pc = "setup"
    /\ res' = [res EXCEPT ![r].pc = "refreshing", ![r].seq = NextSeq]
    /\ refreshing' = refreshing \cup Requests(<<res[r].id>>, "resolve", r)
    /\ UNCHANGED << query, timer, searchToken, tokenCancelled, cyc, extensions, installed,
                    searchResult, plugins, pass, lastRefresh, queryEvents, mutations,
                    hostChanges, sinceMutation, lastGap, burstCycles, srFrom, dirty,
                    provided, mergedAt,
                    sameWrite, limit, taskVars, resolverVars >>

\* api.getExtension answers: the record is updated and returned
RefreshOk(q, data) ==
    /\ q \in refreshing
    /\ refreshing' = refreshing \ {q}
    /\ extensions' = Upsert(extensions, q.id, data)
    /\ provided' = Provide(provided, q.id, data)
    /\ mergedAt' = MergedAt(mergedAt, {q.id}, SeqOf(q))
    /\ lastRefresh' = [how |-> "ok", returned |-> "record"]
    /\ IF q.kind = "resolve"
       THEN ResolveAfterRefresh(q.op, extensions')
       ELSE /\ dirty' = TRUE
            /\ UNCHANGED res
    /\ UNCHANGED << query, timer, searchToken, tokenCancelled, cyc, installed, searchResult,
                    plugins, pass, queryEvents, mutations, hostChanges, sinceMutation,
                    lastGap, burstCycles, srFrom, sameWrite,
                    limit, taskVars, resolverVars >>

\* api.getExtension fails with a 404
RefreshNotFound(q) ==
    /\ q \in refreshing
    /\ refreshing' = refreshing \ {q}
    /\ lastRefresh' = [how |-> "404",
                       returned |-> IF Keeps404(q.id) THEN "record" ELSE "absent"]
    /\ IF q.kind = "resolve"
       THEN IF Keeps404(q.id)
            THEN ResolveAfterRefresh(q.op, extensions)
            ELSE ResolveFailed(q.op)
       ELSE UNCHANGED << res, dirty >>
    /\ UNCHANGED << query, timer, searchToken, tokenCancelled, cyc, extensions, installed,
                    searchResult, plugins, pass, queryEvents, mutations, hostChanges,
                    sinceMutation, lastGap, burstCycles, srFrom, provided,
                    mergedAt, sameWrite,
                    limit, taskVars, resolverVars >>

\* api.getExtension fails with another error: logged
RefreshErrorRaises(q) ==
    /\ q \in refreshing
    /\ refreshing' = refreshing \ {q}
    /\ lastRefresh' = [how |-> "error", returned |-> "raised"]
    /\ IF q.kind = "resolve"
       THEN ResolveFailed(q.op)
       ELSE UNCHANGED << res, dirty >>
    /\ UNCHANGED << query, timer, searchToken, tokenCancelled, cyc, extensions, installed,
                    searchResult, plugins, pass, queryEvents, mutations, hostChanges,
                    sinceMutation, lastGap, burstCycles, srFrom, provided,
                    mergedAt, sameWrite,
                    limit, taskVars, resolverVars >>

RefreshError(q) ==
    /\ q \in refreshing
    /\ refreshing' = refreshing \ {q}
    /\ lastRefresh' = [how |-> "error", returned |-> "absent"]
    /\ IF q.kind = "resolve"
       THEN ResolveFailed(q.op)
       ELSE UNCHANGED << res, dirty >>
    /\ UNCHANGED << query, timer, searchToken, tokenCancelled, cyc, extensions, installed,
                    searchResult, plugins, pass, queryEvents, mutations, hostChanges,
                    sinceMutation, lastGap, burstCycles, srFrom, provided,
                    mergedAt, sameWrite,
                    limit, taskVars, resolverVars >>

\* api.fetchText answers: the readme is compiled and stored, the event fires
ReadmeOk(r, raw) ==
    /\ res[r].pc = "readme"
    /\ extensions' = Upsert(extensions, res[r].id, [f \in {"readme"} |-> compileReadme(raw)])
    /\ provided' = Provide(provided, res[r].id, [f \in {"readme"} |-> compileReadme(raw)])
    /\ res' = [res EXCEPT ![r].pc = "done", ![r].events = @ + 1, ![r].outcome = "resolved",
                          ![r].readme = "ok"]
    /\ FireChange
    /\ UNCHANGED << query, timer, searchToken, tokenCancelled, cyc, installed, searchResult,
                    plugins, pass, refreshing, lastRefresh, queryEvents, mutations,
                    hostChanges, sinceMutation, lastGap, burstCycles, srFrom, mergedAt,
                    sameWrite, limit, taskVars, resolverVars >>

\* api.fetchText fails (a 404 silently, another error logged), or
\* compileReadme throws: the catch swallows it and the event fires
ReadmeFailRejects(r) ==
    /\ res[r].pc = "readme"
    /\ res' = [res EXCEPT ![r].pc = "done", ![r].outcome = "rejected", ![r].readme = "failed"]
    /\ UNCHANGED << query, timer, searchToken, tokenCancelled, cyc, extensions, installed,
                    searchResult, plugins, pass, refreshing, lastRefresh, queryEvents,
                    mutations, hostChanges, sinceMutation, lastGap, burstCycles, srFrom,
                    dirty, provided,
                    mergedAt, sameWrite,
                    limit, taskVars, resolverVars >>

ReadmeFail(r) ==
    /\ res[r].pc = "readme"
    /\ res' = [res EXCEPT ![r].pc = "done", ![r].events = @ + 1, ![r].outcome = "resolved",
                          ![r].readme = "failed"]
    /\ FireChange
    /\ UNCHANGED << query, timer, searchToken, tokenCancelled, cyc, extensions, installed,
                    searchResult, plugins, pass, refreshing, lastRefresh, queryEvents,
                    mutations, hostChanges, sinceMutation, lastGap, burstCycles, srFrom,
                    provided, mergedAt,
                    sameWrite, limit, taskVars, resolverVars >>

\* ------------------------------------------------ TaskTerminalWidgetManager
\* options.taskPanel; "undefined": the option is not given
PanelKinds == {"undefined", "shared", "dedicated", "new"}

\* options.taskConfig; "none": the option is not given
TaskConfigs == {"none", "t1", "t2"}

isDedicatedTerminal(options) == options.taskPanel = "dedicated"

isNewTerminal(options) == options.taskPanel = "new"

isSharedTerminal(options) == options.taskPanel \in {"undefined", "shared"}

\* taskDefinitionRegistry.compareTasks: the two configurations are the same task
compareTasks(a, b) == a = b

WidgetCalls == DOMAIN call

NoCall == [pc |-> "none", taskPanel |-> "undefined", taskConfig |-> "none",
           widget |-> 0, isNew |-> FALSE]

InitTerminals ==
    /\ terminalWidgetMap = << >>
    /\ widgets = << >>
    /\ call = [k \in 1..MaxWidgetCalls |-> NoCall]

\* the loop over the map of a dedicated request, from the i-th entry on;
\* found: reusableTerminalWidget, 0: undefined
RECURSIVE DedicatedLoop(_, _, _)
DedicatedLoop(options, i, found) ==
    IF i > Len(terminalWidgetMap)
    THEN found
    ELSE LET e == terminalWidgetMap[i]
         IN IF /\ e.isDedicated
               /\ ~widgets[e.widget].hasRunningTask
               /\ e.taskConfig # "none"
               /\ options.taskConfig # "none"
               /\ compareTasks(options.taskConfig, e.taskConfig)
            THEN DedicatedLoop(options, i + 1, e.widget)
            ELSE DedicatedLoop(options, i + 1, found)

\* the loop over the map of a shared request, from the i-th entry on
RECURSIVE SharedLoop(_, _)
SharedLoop(i, found) ==
    IF i > Len(terminalWidgetMap)
    THEN found
    ELSE LET e == terminalWidgetMap[i]
         IN IF ~e.isDedicated /\ ~widgets[e.widget].hasRunningTask
            THEN SharedLoop(i + 1, e.widget)
            ELSE SharedLoop(i + 1, found)

\* getWidgetToRunTask up to its await: reusableTerminalWidget, 0: undefined
ReusableTerminalWidget(options) ==
    IF isDedicatedTerminal(options)
    THEN DedicatedLoop(options, 1, 0)
    ELSE IF isSharedTerminal(options)
         THEN SharedLoop(1, 0)
         ELSE 0

NextWidgetCall == Cardinality({k \in WidgetCalls : call[k].pc # "none"}) + 1

\* getOrCreateWidget(options) is called: the check of the options, then
\* getWidgetToRunTask up to its await, or to its return when a widget is reused
GetOrCreateWidget(options) ==
    /\ NextWidgetCall \in WidgetCalls
    /\ LET k == NextWidgetCall
           mine == [NoCall EXCEPT !.taskPanel = options.taskPanel,
                                  !.taskConfig = options.taskConfig]
           found == ReusableTerminalWidget(options)
       IN call' = [call EXCEPT ![k] =
                      IF isDedicatedTerminal(options) /\ options.taskConfig = "none"
                      THEN [mine EXCEPT !.pc = "thrown"]
                      ELSE IF found # 0
                           THEN [mine EXCEPT !.pc = "chosen", !.widget = found]
                           ELSE [mine EXCEPT !.pc = "creating"]]
    /\ UNCHANGED << terminalWidgetMap, widgets, vsxVars, resolverVars >>

NextWidget == Len(widgets) + 1

\* widgetManager.getOrCreateWidget answers with a widget: the close handler
\* is registered and getWidgetToRunTask returns
WidgetCreated(k) ==
    /\ call[k].pc = "creating"
    /\ widgets' = Append(widgets, [hasRunningTask |-> FALSE, closed |-> FALSE])
    /\ call' = [call EXCEPT ![k].pc = "created", ![k].widget = NextWidget,
                            ![k].isNew = TRUE]
    /\ UNCHANGED << terminalWidgetMap, vsxVars, resolverVars >>

\* the rest of getOrCreateWidget after the await of getWidgetToRunTask
WidgetReturned(k) ==
    /\ call[k].pc \in {"chosen", "created"}
    /\ terminalWidgetMap' =
          IF call[k].isNew
          THEN Append(terminalWidgetMap,
                      [widget |-> call[k].widget,
                       isDedicated |-> isDedicatedTerminal(call[k]),
                       taskConfig |-> call[k].taskConfig])
          ELSE terminalWidgetMap
    /\ call' = [call EXCEPT ![k].pc = "returned"]
    /\ UNCHANGED << widgets, vsxVars, resolverVars >>

\* the caller that got the widget starts its task in it
TaskStarted(k) ==
    /\ call[k].pc = "returned"
    /\ ~widgets[call[k].widget].closed
    /\ widgets' = [widgets EXCEPT ![call[k].widget].hasRunningTask = TRUE]
    /\ call' = [call EXCEPT ![k].pc = "started"]
    /\ UNCHANGED << terminalWidgetMap, vsxVars, resolverVars >>

\* the task running in a widget ends
TaskExited(w) ==
    /\ widgets[w].hasRunningTask
    /\ widgets' = [widgets EXCEPT ![w].hasRunningTask = FALSE]
    /\ UNCHANGED << terminalWidgetMap, call, vsxVars, resolverVars >>

\* the map without the entry of widget w
MapDelete(map, w) == SelectSeq(map, LAMBDA e : e.widget # w)

\* a terminal closes: the handler of onTerminalDidClose runs
TerminalClosed(w) ==
    /\ ~widgets[w].closed
    /\ widgets' = [widgets EXCEPT ![w] = [hasRunningTask |-> FALSE, closed |-> TRUE]]
    /\ terminalWidgetMap' = MapDelete(terminalWidgetMap, w)
    /\ UNCHANGED << call, vsxVars, resolverVars >>

\* ----------------------------------------------------- VSXExtensionResolver
\* context.getOriginId(), as VSXExtensionUri.toId reads it; "": not an
\* extension uri
OriginIds == {"", "a.x"}

\* extension.version of the answer of api.getExtension
Versions == {1, 2}

ResolverCalls == DOMAIN rsv

\* name: fullPluginName; existed: fs.pathExists answered true; added: the
\* calls of context.addPlugin; failed: the step that failed
NoResolverCall ==
    [pc |-> "none", id |-> "", name |-> << >>, existed |-> FALSE, downloaded |-> FALSE,
     decompressed |-> "none", removed |-> "none", added |-> 0, failed |-> "none",
     outcome |-> "none"]

InitResolver ==
    /\ rsv = [k \in 1..MaxResolverCalls |-> NoResolverCall]
    /\ extensionDirs = {}
    /\ tempFiles = {}

NextResolverCall == Cardinality({k \in ResolverCalls : rsv[k].pc # "none"}) + 1

\* resolve returns
Returned(call_) == [call_ EXCEPT !.pc = "done", !.outcome = "returned"]

\* resolve rejects
Raised(call_) == [call_ EXCEPT !.pc = "done", !.outcome = "raised"]

\* context.addPlugin(fullPluginName, extensionPath)
AddPlugin(call_) == [call_ EXCEPT !.added = @ + 1]

\* resolve(context) is called, up to the await of api.getExtension
ResolverResolve(origin) ==
    /\ NextResolverCall \in ResolverCalls
    /\ rsv' = [rsv EXCEPT ![NextResolverCall] =
                  IF origin = ""
                  THEN Returned([NoResolverCall EXCEPT !.id = origin])
                  ELSE [NoResolverCall EXCEPT !.pc = "lookup", !.id = origin]]
    /\ UNCHANGED << extensionDirs, tempFiles, vsxVars, taskVars >>

\* api.getExtension answers, up to the awaits of the extensions directory
LookupOk(k, version) ==
    /\ rsv[k].pc = "lookup"
    /\ rsv' = [rsv EXCEPT ![k].pc = "dir", ![k].name = <<rsv[k].id, version>>]
    /\ UNCHANGED << extensionDirs, tempFiles, vsxVars, taskVars >>

\* api.getExtension fails: logged, resolve returns
LookupFails(k) ==
    /\ rsv[k].pc = "lookup"
    /\ rsv' = [rsv EXCEPT ![k] = Returned([@ EXCEPT !.failed = "lookup"])]
    /\ UNCHANGED << extensionDirs, tempFiles, vsxVars, taskVars >>

\* getExtensionsDirUri and fs.ensureDir answer, up to the await of fs.pathExists
DirOk(k) ==
    /\ rsv[k].pc = "dir"
    /\ rsv' = [rsv EXCEPT ![k].pc = "exists"]
    /\ UNCHANGED << extensionDirs, tempFiles, vsxVars, taskVars >>

\* getExtensionsDirUri or fs.ensureDir fails: nothing catches it
DirFails(k) ==
    /\ rsv[k].pc = "dir"
    /\ rsv' = [rsv EXCEPT ![k] = Raised([@ EXCEPT !.failed = "dir"])]
    /\ UNCHANGED << extensionDirs, tempFiles, vsxVars, taskVars >>

\* fs.pathExists answers: the plugin is added when the directory exists,
\* else the download starts
PathExists(k) ==
    /\ rsv[k].pc = "exists"
    /\ rsv' = [rsv EXCEPT ![k] =
                  IF rsv[k].name \in extensionDirs
                  THEN Returned(AddPlugin([@ EXCEPT !.existed = TRUE]))
                  ELSE [@ EXCEPT !.pc = "download"]]
    /\ UNCHANGED << extensionDirs, tempFiles, vsxVars, taskVars >>

\* download answers true: the write stream closed, the file is there; up to
\* the await of decompress
DownloadOk(k) ==
    /\ rsv[k].pc = "download"
    /\ tempFiles' = tempFiles \cup {k}
    /\ rsv' = [rsv EXCEPT ![k].pc = "decompress", ![k].downloaded = TRUE]
    /\ UNCHANGED << extensionDirs, vsxVars, taskVars >>

\* download answers false: a 404, whose body was piped to the file
DownloadNotFound(k) ==
    /\ rsv[k].pc = "download"
    /\ tempFiles' = tempFiles \cup {k}
    /\ rsv' = [rsv EXCEPT ![k] = Returned([@ EXCEPT !.failed = "notfound"])]
    /\ UNCHANGED << extensionDirs, vsxVars, taskVars >>

\* download rejects: logged, resolve returns; the write stream may have
\* created the file
DownloadFails(k, created) ==
    /\ rsv[k].pc = "download"
    /\ tempFiles' = IF created THEN tempFiles \cup {k} ELSE tempFiles
    /\ rsv' = [rsv EXCEPT ![k] = Returned([@ EXCEPT !.failed = "download"])]
    /\ UNCHANGED << extensionDirs, vsxVars, taskVars >>

\* decompress answers, up to the await of fs.remove in the finally block
DecompressOk(k) ==
    /\ rsv[k].pc = "decompress"
    /\ extensionDirs' = extensionDirs \cup {rsv[k].name}
    /\ rsv' = [rsv EXCEPT ![k].pc = "remove", ![k].decompressed = "ok"]
    /\ UNCHANGED << tempFiles, vsxVars, taskVars >>

\* decompress fails: logged, then the finally block up to the await of
\* fs.remove; a part of the directory may have been written
DecompressFails(k, partial) ==
    /\ rsv[k].pc = "decompress"
    /\ extensionDirs' = IF partial THEN extensionDirs \cup {rsv[k].name} ELSE extensionDirs
    /\ rsv' = [rsv EXCEPT ![k].pc = "remove", ![k].decompressed = "failed",
                          ![k].failed = "decompress"]
    /\ UNCHANGED << tempFiles, vsxVars, taskVars >>

\* fs.remove answers: after a failed decompress the return of the catch
\* block takes effect, else the plugin is added
RemoveOkAlwaysAdds(k) ==
    /\ rsv[k].pc = "remove"
    /\ tempFiles' = tempFiles \ {k}
    /\ rsv' = [rsv EXCEPT ![k] = Returned(AddPlugin([@ EXCEPT !.removed = "ok"]))]
    /\ UNCHANGED << extensionDirs, vsxVars, taskVars >>

RemoveOk(k) ==
    /\ rsv[k].pc = "remove"
    /\ tempFiles' = tempFiles \ {k}
    /\ rsv' = [rsv EXCEPT ![k] =
                  IF rsv[k].decompressed = "ok"
                  THEN Returned(AddPlugin([@ EXCEPT !.removed = "ok"]))
                  ELSE Returned([@ EXCEPT !.removed = "ok"])]
    /\ UNCHANGED << extensionDirs, vsxVars, taskVars >>

\* fs.remove fails: the error leaves the finally block and resolve rejects
RemoveFails(k) ==
    /\ rsv[k].pc = "remove"
    /\ rsv' = [rsv EXCEPT ![k] = Raised([@ EXCEPT !.removed = "failed"])]
    /\ UNCHANGED << extensionDirs, tempFiles, vsxVars, taskVars >>

\* ------------------------------------------------------- the specification
\* the state after init(): updateInstalled() and the debounced
\* updateSearchResult() have been called
InitWith(lim) ==
    /\ InitTerminals
    /\ InitResolver
    /\ limit = lim
    /\ sameWrite = FALSE
    /\ mergedAt = << >>
    /\ provided = << >>
    /\ query = ""
    /\ timer = Debounce(-1)
    /\ searchToken = 0
    /\ tokenCancelled = [c \in 0..(lim.mutations + 1) |-> FALSE]
    /\ cyc = [c \in 1..(lim.mutations + 1) |-> NoCycle]
    /\ extensions = << >>
    /\ installed = {}
    /\ searchResult = {}
    /\ plugins = [i \in {IdAX} |-> "vscode"]
    /\ pass = [p \in 1..(lim.others + 1) |-> IF p = 1 THEN [NoPass EXCEPT !.pc = "setup"] ELSE NoPass]
    /\ refreshing = {}
    /\ res = [r \in 1..lim.others |-> NoResolve]
    /\ lastRefresh = [how |-> "none", returned |-> "none"]
    /\ queryEvents = << >>
    /\ mutations = 0
    /\ hostChanges = 0
    /\ sinceMutation = 0
    /\ lastGap = 0
    /\ burstCycles = 0
    /\ srFrom = 0
    /\ dirty = FALSE

Init ==
    InitWith([mutations |-> AllCalls, others |-> AllCalls, total |-> AllCalls,
              ordered |-> FALSE])

InitSearch ==
    InitWith([mutations |-> MaxMutations, others |-> 0, total |-> MaxMutations,
              ordered |-> FALSE])

InitHost ==
    InitWith([mutations |-> 0, others |-> MaxCalls, total |-> MaxCalls,
              ordered |-> FALSE])

\* the host side with the issue order of the registry requests recorded
InitOrdered ==
    InitWith([mutations |-> 0, others |-> MaxCalls, total |-> MaxCalls,
              ordered |-> TRUE])

Next ==
    \/ \E q \in Queries : SetQuery(q)
    \/ Tick
    \/ UpdateSearchResult
    \/ \E c \in Cycles : SearchTaskStart(c)
    \/ \E c \in Cycles, list \in SearchAnswers : SearchArrive(c, list)
    \/ \E c \in Cycles : SearchFail(c)
    \/ \E ps \in HostStates : HostChange(ps)
    \/ \E p \in Passes : UpdateInstalled(p)
    \/ \E id \in Ids : Resolve(id)
    \/ \E r \in Resolves : ResolveTaskStart(r)
    \/ \E q \in refreshing : \E data \in Details(q.id) : RefreshOk(q, data)
    \/ \E q \in refreshing : RefreshNotFound(q)
    \/ \E q \in refreshing : RefreshError(q)
    \/ \E r \in Resolves, raw \in RawReadmes : ReadmeOk(r, raw)
    \/ \E r \in Resolves : ReadmeFail(r)

Spec == Init /\ [][Next]_vars

NextSearch ==
    \/ \E q \in Queries : SetQuery(q)
    \/ Tick
    \/ UpdateSearchResult
    \/ \E c \in Cycles : SearchTaskStart(c)
    \/ \E c \in Cycles, list \in SearchAnswers : SearchArrive(c, list)
    \/ \E c \in Cycles : SearchFail(c)

SpecSearch == InitSearch /\ [][NextSearch]_vars

\* the search side when every call of api.search answers: time passes, the
\* timer fires, the progress set-up and the registry come back
NextSearchOk ==
    \/ \E q \in Queries : SetQuery(q)
    \/ Tick
    \/ UpdateSearchResult
    \/ \E c \in Cycles : SearchTaskStart(c)
    \/ \E c \in Cycles, list \in SearchAnswers : SearchArrive(c, list)

SpecSearchLive ==
    /\ InitSearch
    /\ [][NextSearchOk]_vars
    /\ WF_vars(Tick)
    /\ WF_vars(UpdateSearchResult)
    /\ WF_vars(\E c \in Cycles : SearchTaskStart(c))
    /\ WF_vars(\E c \in Cycles, list \in SearchAnswers : SearchArrive(c, list))

NextHost ==
    \/ \E ps \in HostStates : HostChange(ps)
    \/ \E p \in Passes : UpdateInstalled(p)
    \/ \E id \in Ids : Resolve(id)
    \/ \E r \in Resolves : ResolveTaskStart(r)
    \/ \E q \in refreshing : \E data \in Details(q.id) : RefreshOk(q, data)
    \/ \E q \in refreshing : RefreshNotFound(q)
    \/ \E q \in refreshing : RefreshError(q)
    \/ \E r \in Resolves, raw \in RawReadmes : ReadmeOk(r, raw)
    \/ \E r \in Resolves : ReadmeFail(r)

SpecHost == InitHost /\ [][NextHost]_vars

SpecOrdered == InitOrdered /\ [][NextHost]_vars

\* the terminal widget manager alone
InitTerminal ==
    InitWith([mutations |-> 0, others |-> 0, total |-> 0, ordered |-> FALSE])

NextTerminal ==
    \/ \E panel \in PanelKinds, config \in TaskConfigs :
          GetOrCreateWidget([taskPanel |-> panel, taskConfig |-> config])
    \/ \E k \in WidgetCalls : WidgetCreated(k)
    \/ \E k \in WidgetCalls : WidgetReturned(k)
    \/ \E k \in WidgetCalls : TaskStarted(k)
    \/ \E w \in DOMAIN widgets : TaskExited(w)
    \/ \E w \in DOMAIN widgets : TerminalClosed(w)

SpecTerminal == InitTerminal /\ [][NextTerminal]_vars

\* the extension resolver alone
InitResolverAlone ==
    InitWith([mutations |-> 0, others |-> 0, total |-> 0, ordered |-> FALSE])

NextResolver ==
    \/ \E origin \in OriginIds : ResolverResolve(origin)
    \/ \E k \in ResolverCalls, version \in Versions : LookupOk(k, version)
    \/ \E k \in ResolverCalls : LookupFails(k)
    \/ \E k \in ResolverCalls : DirOk(k)
    \/ \E k \in ResolverCalls : DirFails(k)
    \/ \E k \in ResolverCalls : PathExists(k)
    \/ \E k \in ResolverCalls : DownloadOk(k)
    \/ \E k \in ResolverCalls : DownloadNotFound(k)
    \/ \E k \in ResolverCalls, created \in BOOLEAN : DownloadFails(k, created)
    \/ \E k \in ResolverCalls : DecompressOk(k)
    \/ \E k \in ResolverCalls, partial \in BOOLEAN : DecompressFails(k, partial)
    \/ \E k \in ResolverCalls : RemoveOk(k)
    \/ \E k \in ResolverCalls : RemoveFails(k)

SpecResolver == InitResolverAlone /\ [][NextResolver]_vars

\* ------------------------------------------------------------------ claims
\* a cycle started and not yet ended
Started(c) == cyc[c].pc # "none"
Ended(c) == cyc[c].pc = "done"

\* the step in which the registry answer of cycle c arrives
Answered(c) == cyc[c].pc = "searching" /\ cyc'[c].pc = "done"

\* nothing of the search is pending: no timer, no cycle in flight
AllArrived == timer = -1 /\ \A c \in Cycles : ~InFlight(c)

\* C1: once a newer search cycle owns the token source, the answer of an
\* older cycle, whenever it arrives and whatever it is, leaves the Search
\* Result Set and every extension record as they are.
C1_OlderResponseDiscarded ==
    [][\A c \in Cycles :
          (Answered(c) /\ searchToken # c)
              => (searchResult' = searchResult /\ extensions' = extensions)]_vars

\* an older cycle's summaries arrived after a newer cycle had committed its own
C1_Witness ==
    \E c, n \in Cycles :
        /\ c < n
        /\ cyc[c].answer = "ok" /\ cyc[c].under = n
        /\ cyc[n].outcome = "committed" /\ srFrom = n
        /\ searchResult # {}

\* C2 as stated: when the query was written again before the answer of a
\* prior search arrived, then once nothing of the search is pending the
\* Search Result Set is not the one the prior search committed.
C2_PriorResultNeverFinal ==
    AllArrived => \A p \in Cycles : cyc[p].stale => srFrom # p

\* C2 as amended: the Search Result Set never holds the result of a search
\* whose answer arrived after a newer cycle had started, also when the newer
\* search call failed; and once nothing of the search is pending, a last
\* cycle that was answered leaves its own result there.
C2_SupersededResultNeverHeld ==
    /\ \A p \in Cycles : (Ended(p) /\ cyc[p].under # p) => srFrom # p
    /\ AllArrived =>
          \A n \in Cycles : (n = searchToken /\ cyc[n].answer = "ok") => srFrom = n

\* the prior answer arrived after the newer cycle had started, the newer
\* search call failed, and the set still is the one an earlier cycle left
C2_Witness ==
    /\ AllArrived
    /\ \E p, n \in Cycles :
          /\ p < n
          /\ cyc[p].stale /\ cyc[p].answer = "ok" /\ cyc[p].under = n
          /\ cyc[n].answer = "failed"
          /\ srFrom # p

\* C3: the calls of the debounced function that follow one another before
\* it ran start exactly one cycle: none while the timer is armed, one once it
\* is not; a cycle starts only when the full wait has passed since the last
\* call, and it is started with, and asks the registry for, the query last written.
C3_DebounceCoalesces ==
    /\ timer >= 0 => burstCycles = 0
    /\ timer = -1 => burstCycles = 1
    /\ \A c \in Cycles : Started(c) => cyc[c].waited >= DebounceWait
    /\ burstCycles = 1 =>
          /\ cyc[searchToken].param = query
          /\ cyc[searchToken].asked \in {"<none>", query}

\* two writes, the second less than the wait after the first, one cycle in
\* all, which asked the registry for the value written last
C3_Witness ==
    /\ mutations = 2
    /\ lastGap > 0 /\ lastGap < DebounceWait
    /\ NextCycle = 2
    /\ burstCycles = 1
    /\ cyc[1].asked = query

\* the ids of the plugins the host reports with the engine type 'vscode'
HostReported == { id \in DOMAIN plugins : plugins[id] = "vscode" }

\* the step in which the task of reconciliation pass p runs
Reconciled(p) == pass[p].pc = "setup" /\ pass'[p].pc = "done"

\* C4: a reconciliation pass leaves in the Installed Set exactly the ids the
\* host reports with the engine type 'vscode' when the pass runs, whatever
\* refreshes are in flight.
C4_InstalledIsHostReported ==
    [][\A p \in Passes : Reconciled(p) => installed' = HostReported]_vars

\* the second pass dropped a.x, which the first had installed, while the
\* refreshes of both are in flight
C4_Witness ==
    /\ Cardinality(Passes) >= 2
    /\ pass[1].issued = <<IdAX>>
    /\ pass[2].pc = "done" /\ pass[2].issued = <<IdAY, IdAX>>
    /\ installed = {IdAY}
    /\ \E q \in refreshing : q.op = 1
    /\ \E q \in refreshing : q.op = 2

\* no operation is in flight
Quiescent ==
    /\ refreshing = {}
    /\ \A c \in Cycles : ~InFlight(c)
    /\ \A p \in Passes : pass[p].pc # "setup"
    /\ \A r \in Resolves : res[r].pc \in {"none", "done"}

\* C5: every record update an operation causes is followed by a change
\* event: once no operation is in flight, no update is left that no change
\* event followed.
C5_EventAfterAllUpdates == Quiescent => ~dirty

\* C6: a search cycle that was answered while its token was current, a
\* reconciliation pass and a resolve that succeeded each fired exactly one
\* change event; a cycle that failed or was superseded and a resolve that
\* failed fired none.
C6_OneEventPerOperation ==
    /\ \A c \in Cycles :
          Ended(c) => cyc[c].events =
                         IF cyc[c].answer = "ok" /\ cyc[c].under = c THEN 1 ELSE 0
    /\ \A p \in Passes : pass[p].events = IF pass[p].pc = "done" THEN 1 ELSE 0
    /\ \A r \in Resolves :
          res[r].events = IF res[r].pc = "done" /\ res[r].outcome = "resolved" THEN 1 ELSE 0

\* a cycle, a pass and a resolve each ended with their event
C6_Witness ==
    /\ \E c \in Cycles : cyc[c].answer = "ok" /\ cyc[c].events = 1
    /\ \E p \in Passes : pass[p].events = 1
    /\ \E r \in Resolves : res[r].outcome = "resolved" /\ res[r].events = 1

\* C7: a cycle that ended after a newer cycle had started fired no change
\* event and raised no error.
C7_SupersededCycleSilent ==
    \A c \in Cycles :
        (Ended(c) /\ cyc[c].under # c) => (cyc[c].events = 0 /\ cyc[c].outcome # "rejected")

\* C8: when the search call of a cycle fails, the Search Result Set and
\* every extension record stay as they were.
C8_FailedSearchChangesNothing ==
    [][\A c \in Cycles :
          (Answered(c) /\ cyc'[c].answer = "failed")
              => (searchResult' = searchResult /\ extensions' = extensions)]_vars

\* a search failed while the set held the result of an earlier search
C8_Witness ==
    \E c \in Cycles :
        /\ cyc[c].answer = "failed" /\ cyc[c].under = c
        /\ searchResult # {} /\ srFrom # 0 /\ srFrom < c

\* C9: the promise of a search cycle or of a reconciliation pass never rejects.
C9_NoFailurePastBoundary ==
    /\ \A c \in Cycles : cyc[c].outcome # "rejected"
    /\ \A p \in Passes : pass[p].outcome # "rejected"

\* the step in which the refresh q ends
Refreshed(q) == q \in refreshing /\ q \notin refreshing'

\* C10: on a 404, refresh(id) returns the record, no field of it changed,
\* when the record exists and reports installed, and undefined otherwise.
C10_NotFoundKeepsInstalled ==
    [][\A q \in refreshing :
          (Refreshed(q) /\ lastRefresh'.how = "404")
              => IF q.id \in DOMAIN extensions /\ Installed(q.id)
                 THEN lastRefresh'.returned = "record" /\ extensions' = extensions
                 ELSE lastRefresh'.returned = "absent"]_vars

\* a 404 for an installed record that carries registry data
C10_Witness ==
    /\ lastRefresh = [how |-> "404", returned |-> "record"]
    /\ \E id \in DOMAIN extensions : Installed(id) /\ "version" \in DOMAIN extensions[id]

\* C11: resolve(id) fails exactly when its refresh(id) returns undefined,
\* which is on a 404 for an id without an installed record and on any other
\* registry error; a failing resolve creates and changes no record, leaves the
\* Installed Set and the Search Result Set alone and fires no change event.
C11_ResolveFailsIffAbsent ==
    [][\A q \in refreshing :
          (Refreshed(q) /\ q.kind = "resolve")
              => /\ (res'[q.op].outcome = "rejected") <=> (lastRefresh'.returned = "absent")
                 /\ (lastRefresh'.returned = "absent") <=>
                       \/ lastRefresh'.how = "error"
                       \/ /\ lastRefresh'.how = "404"
                          /\ ~(q.id \in DOMAIN extensions /\ Installed(q.id))
                 /\ res'[q.op].outcome = "rejected"
                       => /\ extensions' = extensions
                          /\ installed' = installed
                          /\ searchResult' = searchResult
                          /\ res'[q.op].events = 0
                          /\ dirty' = dirty]_vars

\* a resolve failed on a 404 although the id has a record, which is not installed
C11_Witness ==
    \E r \in Resolves :
        /\ res[r].outcome = "rejected"
        /\ lastRefresh = [how |-> "404", returned |-> "absent"]
        /\ res[r].id \in DOMAIN extensions
        /\ ~Installed(res[r].id)

\* the step in which the readme fetch of resolve r ends
ReadmeEnded(r) == res[r].pc = "readme" /\ res'[r].pc = "done"

\* C12: when the readme fetch of a resolve fails, the resolve still
\* succeeds, every record, the readme field included, stays as it was, and
\* the change event fires.
C12_ReadmeFailureTolerated ==
    [][\A r \in Resolves :
          (ReadmeEnded(r) /\ res'[r].readme = "failed")
              => /\ res'[r].outcome = "resolved"
                 /\ res'[r].events = 1
                 /\ extensions' = extensions
                 /\ ~dirty']_vars

\* the readme fetch of a resolve failed for a record whose readme an
\* earlier resolve had set
C12_Witness ==
    \E r \in Resolves :
        /\ res[r].readme = "failed"
        /\ res[r].outcome = "resolved"
        /\ "readme" \in DOMAIN extensions[res[r].id]

\* every field that was provided for a record has the value provided last
ProvidedKept ==
    \A id \in DOMAIN provided :
        /\ id \in DOMAIN extensions
        /\ \A f \in DOMAIN provided[id] :
              /\ f \in DOMAIN extensions[id]
              /\ extensions[id][f] = provided[id][f]

\* C13: record updates are field-wise merges. Through every interleaving
\* of search, refresh and readme updates each field of a record keeps the
\* value provided for it last and no update resets a field it does not
\* provide; a reconciliation pass, which only references the ids again
\* (setExtension), leaves every existing record as it was.
C13_UpdatesAreMerges ==
    [][/\ ProvidedKept'
       /\ \A p \in Passes :
             Reconciled(p) => \A id \in DOMAIN extensions : extensions'[id] = extensions[id]]_vars

\* a record that got its names from a search, its version from a refresh
\* and a readme from a resolve
C13_Witness ==
    /\ IdAX \in DOMAIN extensions
    /\ {"publisher", "name", "readmeUrl", "readme"} \subseteq DOMAIN extensions[IdAX]
    /\ extensions[IdAX].version \in {2, 3}
    /\ srFrom # 0

\* the id the registry has for a summary, written out
ExpectedId(data) == IF data = SumAX THEN IdAX ELSE IdAY

\* C14: when the answer of a cycle whose token is not cancelled arrives, the
\* Search Result Set becomes exactly the lower-cased publisher.name ids of
\* the summaries of the answer, dropping every other id, and each of these
\* ids has a record carrying the fields of its summary.
C14_SearchResultIsReturnedIds ==
    [][\A c \in Cycles :
          (Answered(c) /\ cyc'[c].answer = "ok" /\ ~tokenCancelled[c])
              => LET list == cyc'[c].got
                 IN /\ searchResult' = { ExpectedId(list[i]) : i \in DOMAIN list }
                    /\ \A i \in DOMAIN list :
                          /\ ExpectedId(list[i]) \in DOMAIN extensions'
                          /\ \A f \in DOMAIN list[i] :
                                extensions'[ExpectedId(list[i])][f] = list[i][f]]_vars

\* a committed answer of one summary replaced a result of two: the record of
\* the dropped id still carries its summary
C14_Witness ==
    \E c \in Cycles :
        /\ cyc[c].outcome = "committed"
        /\ cyc[c].got = <<SumAX>>
        /\ srFrom = c
        /\ searchResult = {IdAX}
        /\ IdAY \in DOMAIN extensions
        /\ "name" \in DOMAIN extensions[IdAY]

\* C15: once the response of a later-issued request was merged into the
\* record of an id, the response of an earlier-issued refresh of that id
\* leaves the record as it is.
C15_ObsoleteRefreshNotMerged ==
    [][\A q \in refreshing :
          (/\ Refreshed(q)
           /\ lastRefresh'.how = "ok"
           /\ q.id \in DOMAIN mergedAt
           /\ mergedAt[q.id] > SeqOf(q))
              => extensions'[q.id] = extensions[q.id]]_vars

\* the cycle owning the token asked for the current query, its answer is the
\* Search Result Set, and its change event fired
LatestCommitted ==
    /\ searchToken \in Cycles
    /\ LET c == searchToken
           list == cyc[c].got
       IN /\ cyc[c].asked = query
          /\ cyc[c].outcome = "committed"
          /\ srFrom = c
          /\ searchResult = { ExpectedId(list[i]) : i \in DOMAIN list }
          /\ cyc[c].events = 1

\* C16: when the query is written no more and every search call answers,
\* the Search Result Set ends up as the ids returned for the latest query
\* value, with the change event of that commit fired, and stays so.
C16_EventuallyLatestResults == <>[](AllArrived /\ LatestCommitted)

\* the query was written as often as the run allows and the cycle of the
\* last value committed a result that is not empty
C16_Witness ==
    /\ mutations = limit.mutations
    /\ mutations > 0
    /\ AllArrived
    /\ LatestCommitted
    /\ searchResult # {}

\* C17: the task of a reconciliation pass calls refresh once for each id
\* the host reports as a 'vscode' plugin, once for each id of the previous
\* Installed Set the host reports no more, and for no other id; the previous
\* set is read before it is replaced, and the pass ends, its event fired,
\* with every one of these requests still in flight.
C17_RefreshIssuedOncePerId ==
    [][\A p \in Passes :
          Reconciled(p)
              => LET ref == pass'[p].issued
                     ids == { ref[i] : i \in DOMAIN ref }
                 IN /\ \A i, j \in DOMAIN ref : ref[i] = ref[j] => i = j
                    /\ ids = HostReported \cup (installed \ HostReported)
                    /\ installed' = HostReported
                    /\ refreshing' =
                          refreshing \cup { [id |-> i, kind |-> "pass", op |-> p] : i \in ids }
                    /\ pass'[p].outcome = "resolved"
                    /\ pass'[p].events = 1]_vars

\* a pass ended having refreshed the id the host reports and the id it
\* reports no more, both requests in flight
C17_Witness ==
    \E p \in Passes :
        /\ pass[p].pc = "done"
        /\ pass[p].issued = <<IdAY, IdAX>>
        /\ installed = {IdAY}
        /\ \A i \in Ids : [id |-> i, kind |-> "pass", op |-> p] \in refreshing

\* C18: refresh(id) always returns: the updated record when the registry
\* answers, and when the registry fails, with a 404 or otherwise, the
\* existing installed record or undefined; the pass that issued it without
\* awaiting it is not touched.
C18_RefreshNeverRaises ==
    [][\A q \in refreshing :
          Refreshed(q)
              => /\ lastRefresh'.returned \in {"record", "absent"}
                 /\ lastRefresh'.how = "ok"
                       => /\ lastRefresh'.returned = "record"
                          /\ q.id \in DOMAIN extensions'
                 /\ lastRefresh'.how \in {"404", "error"}
                       => \/ lastRefresh'.returned = "absent"
                          \/ /\ q.id \in DOMAIN extensions
                             /\ Installed(q.id)
                             /\ extensions' = extensions
                 /\ q.kind = "pass" => pass' = pass]_vars

\* the registry failed, not with a 404, on a refresh a pass had issued
C18_Witness ==
    /\ lastRefresh = [how |-> "error", returned |-> "absent"]
    /\ \A r \in Resolves : res[r].pc = "none"
    /\ \E p \in Passes : pass[p].outcome = "resolved" /\ pass[p].issued # << >>

\* the step is a write of the query with the value it has
WroteSame == sameWrite' /\ ~sameWrite

\* C19: a write of the query with the value it has fires no query-change
\* event, leaves the debounce timer, the token source and every cycle as
\* they are, and changes nothing else; a write of another value fires one
\* query-change event, with the new value.
C19_SameQueryWriteIsNoop ==
    [][/\ WroteSame
          => /\ query' = query
             /\ queryEvents' = queryEvents
             /\ timer' = timer /\ sinceMutation' = sinceMutation
             /\ cyc' = cyc /\ searchToken' = searchToken
             /\ tokenCancelled' = tokenCancelled
             /\ extensions' = extensions /\ searchResult' = searchResult
             /\ installed' = installed /\ dirty' = dirty
       /\ query' # query
          => queryEvents' = Append(queryEvents, query')]_vars

\* the query was written with the value it had while the debounce timer of
\* an earlier write ran and a cycle was in flight, and no event was added
C19_Witness ==
    /\ sameWrite
    /\ timer > 0 /\ timer < DebounceWait
    /\ \E c \in Cycles : InFlight(c)
    /\ Len(queryEvents) = 1

\* the step in which a cycle replaces the Search Result Set
Committed == srFrom' # srFrom

\* C20 as stated: whenever the Search Result Set is replaced, the results
\* were obtained for the query value that is active at that moment.
C20_CommittedForActiveQuery ==
    [][Committed => cyc'[srFrom'].asked = query']_vars

\* C20, amended: the Search Result Set is replaced only by the cycle that
\* owns the token source, with results obtained for the query value read
\* when the debounced function ran; that value differs from the active
\* query only when the query was written after the cycle started and the
\* debounce timer of that write has not yet run the debounced function.
C20_CommittedForQueryOfCycle ==
    [][Committed
          => LET c == srFrom'
             IN /\ c = searchToken
                /\ ~tokenCancelled[c]
                /\ cyc'[c].asked = cyc[c].param
                /\ \/ cyc'[c].asked = query
                   \/ cyc[c].stale /\ timer >= 0]_vars

\* a cycle committed the results of a value the query no longer has, inside
\* the debounce window of the write
C20_Witness ==
    \E c \in Cycles :
        /\ srFrom = c
        /\ cyc[c].outcome = "committed"
        /\ cyc[c].stale
        /\ cyc[c].asked # query
        /\ timer > 0
        /\ searchResult # {}

\* C21: every id of the Installed Set and of the Search Result Set has a
\* record in the store, in every state, and no step removes a record.
C21_SetsHaveRecords ==
    [][/\ installed' \subseteq DOMAIN extensions'
       /\ searchResult' \subseteq DOMAIN extensions'
       /\ DOMAIN extensions \subseteq DOMAIN extensions'
       /\ \A id \in DOMAIN extensions' : extensions'[id].id = id]_vars

\* a pass installed the id the host reports and a search committed that id
\* and one the host does not report: both have a record
C21_Witness ==
    /\ installed = {IdAX}
    /\ searchResult = {IdAX, IdAY}
    /\ srFrom # 0
    /\ {IdAX, IdAY} \subseteq DOMAIN extensions

\* the step in which the callback of doChange of cycle c starts
TaskReached(c) == cyc[c].pc = "setup" /\ cyc'[c].pc # "setup"

\* C22: a cycle whose token is cancelled when the callback of doChange
\* starts calls api.search not at all: it ends there, with no result, no
\* change of the records or sets and no change event.
C22_CancelledBeforeTaskIsSkipped ==
    [][\A c \in Cycles :
          (TaskReached(c) /\ tokenCancelled[c])
              => /\ cyc'[c].pc = "done"
                 /\ cyc'[c].outcome = "skipped"
                 /\ cyc'[c].asked = "<none>"
                 /\ cyc'[c].answer = "none"
                 /\ cyc'[c].events = 0
                 /\ extensions' = extensions
                 /\ searchResult' = searchResult /\ srFrom' = srFrom
                 /\ installed' = installed
                 /\ dirty' = dirty]_vars

\* a cycle was superseded during the progress set-up and ended unasked,
\* while the cycle that superseded it searches
C22_Witness ==
    \E c \in Cycles :
        /\ cyc[c].outcome = "skipped"
        /\ tokenCancelled[c]
        /\ searchToken # c
        /\ cyc[searchToken].pc = "searching"

\* the step in which call k of getOrCreateWidget returns its widget
HandedOut(k) == call[k].pc \in {"chosen", "created"} /\ call'[k].pc = "returned"

\* C23: a widget getOrCreateWidget hands out has no running task when it is
\* handed out.
C23_HandedOutWidgetIsIdle ==
    [][\A k \in WidgetCalls :
          HandedOut(k) => ~widgets[call[k].widget].hasRunningTask]_vars

\* call k of resolve added at most one plugin, and only for a directory
\* that existed or that it downloaded and decompressed
AddsOnlyWhatIsThere(k) ==
    /\ rsv[k].added <= 1
    /\ rsv[k].added = 1
          => \/ rsv[k].existed
             \/ rsv[k].downloaded /\ rsv[k].decompressed = "ok"

\* call k ended on a failed lookup, a download not found or failed, or a
\* failed decompress
EndedOnFailure(k) ==
    /\ rsv[k].pc = "done"
    /\ rsv[k].failed \in {"lookup", "notfound", "download", "decompress"}

\* call k has tried to decompress and has ended
DecompressTried(k) == rsv[k].pc = "done" /\ rsv[k].decompressed # "none"

\* C24 as stated: a plugin is added at most once and only for a directory
\* that is there; a failed lookup, download or decompress ends resolve with no
\* plugin added and nothing raised; the download file is gone after every
\* attempt to decompress.
C24_FailuresNeverRaise ==
    \A k \in ResolverCalls :
        /\ AddsOnlyWhatIsThere(k)
        /\ EndedOnFailure(k) => rsv[k].added = 0 /\ rsv[k].outcome = "returned"
        /\ DecompressTried(k) => k \notin tempFiles

\* C24, amended: as stated as long as fs.remove succeeds; when fs.remove
\* fails in the finally block, after a decompress that failed or succeeded,
\* resolve rejects, adds no plugin and the download file stays.
C24_FailuresNeverRaiseUnlessRemoveFails ==
    \A k \in ResolverCalls :
        /\ AddsOnlyWhatIsThere(k)
        /\ EndedOnFailure(k) => rsv[k].added = 0
        /\ (EndedOnFailure(k) /\ rsv[k].removed # "failed") => rsv[k].outcome = "returned"
        /\ (DecompressTried(k) /\ rsv[k].removed = "ok") => k \notin tempFiles
        /\ rsv[k].removed = "failed"
              => /\ rsv[k].outcome = "raised"
                 /\ rsv[k].added = 0
                 /\ k \in tempFiles
        /\ rsv[k].pc = "done" /\ rsv[k].decompressed = "ok" /\ rsv[k].removed = "ok"
              => rsv[k].added = 1

\* one call failed to decompress and returned, its download file removed and
\* a part of the directory written; the next call found the directory and
\* added the plugin
C24_Witness ==
    \E k, j \in ResolverCalls :
        /\ rsv[k].failed = "decompress" /\ rsv[k].removed = "ok"
        /\ rsv[k].outcome = "returned" /\ rsv[k].added = 0
        /\ k \notin tempFiles
        /\ rsv[j].existed /\ rsv[j].added = 1 /\ rsv[j].name = rsv[k].name

====
